---- MODULE Spec2Model ----
(***************************************************************************)
(* Squeeze scanner core: the indicator columns (core/indicators.py), the   *)
(* squeeze state machine, the breakout validator and the squeeze history   *)
(* extractor (core/squeeze_detector.py), as a state machine over one       *)
(* fetched bar series, and the batch scan (scan_single_stock,              *)
(* scan_all_stocks) as a state machine over one batch of symbols.          *)
(*                                                                         *)
(* Numbers.  A pandas float cell is NaN or a finite value.  NaN is the     *)
(* empty tuple and a finite value v is <<v>>, v an integer count of        *)
(* thousandths (1.5 is <<1500>>).  Sums, differences and the multipliers   *)
(* 2.0 and 1.5 are exact on the values used.  A quotient (BB_Width, the    *)
(* forward moves) is kept as an exact fraction <<num, den>>, den > 0, and  *)
(* round(x, 2) yields an integer count of hundredths.  A positive          *)
(* numerator over a zero denominator, <<num, 0>>, is positive infinity;    *)
(* 0/0 is NaN.                                                             *)
(*                                                                         *)
(* Positions are 0-based as in the source: Row(frame, i) is df.iloc[i].    *)
(* The frames carry no Date column, so an event's start_date and end_date  *)
(* are positions.                                                          *)
(*                                                                         *)
(* Series are short.  The rolling statistics of a bar are inputs of its    *)
(* row, drawn per bar, so the warm-up (undefined statistics) may have any  *)
(* length, none included; closes and middle bands are positive.            *)
(***************************************************************************)
EXTENDS Integers, Sequences, FiniteSets, TLC

VARIABLES
    bars,      \* the fetched series with its rolling statistics, one row per bar
    df,        \* the frame returned by detect_squeeze / detect_entry_signals
    signals,   \* the signal columns added by detect_entry_signals
    events,    \* the list returned by get_squeeze_history
    done,      \* which operations have run on this series
    phase,     \* scan_all_stocks: "idle", "collecting", "returned" or "raised"
    futures,   \* scan_all_stocks: the submitted tasks, in submission order
    results,   \* scan_all_stocks: the list the collecting loop appends to
    completed, \* scan_all_stocks: the progress counter
    progress,  \* the calls progress_callback has received
    table      \* the rows of the DataFrame scan_all_stocks returned

\* the variables of one series and of one batch scan
series_vars == <<bars, df, signals, events, done>>
scan_vars == <<phase, futures, results, completed, progress, table>>

vars == <<bars, df, signals, events, done,
          phase, futures, results, completed, progress, table>>

----------------------------------------------------------------------------
(* Bounds of the model *)

\* longest series of the squeeze state machine specification (Spec)
MaxBars == 4
\* longest series of the breakout validator specification (SpecSignals)
MaxSignalBars == 2
\* longest series of the history extractor specification (SpecHistory)
MaxHistoryBars == 7

----------------------------------------------------------------------------
(* Program constants *)

\* config.BB_STD_DEV, "Standard deviation multiplier (default 2.0)"
BB_STD_DEV == 2
\* config.KC_ATR_MULTIPLIER, "ATR multiplier (default 1.5)", as 3/2
KC_ATR_MULTIPLIER_NUM == 3
KC_ATR_MULTIPLIER_DEN == 2
\* the forward horizons of get_squeeze_history
HORIZON_5 == 5
HORIZON_10 == 10
HORIZON_20 == 20
\* the placeholder get_squeeze_history uses for an undefined starting width
WIDTH_PLACEHOLDER == 999

----------------------------------------------------------------------------
(* Floats *)

NaN == <<>>
Fl(v) == <<v>>
isna(x) == x = NaN
Val(x) == x[1]

\* IEEE comparisons: any comparison with NaN is false
Gt(x, y) == ~isna(x) /\ ~isna(y) /\ Val(x) > Val(y)
Lt(x, y) == ~isna(x) /\ ~isna(y) /\ Val(x) < Val(y)

\* NaN propagates through arithmetic
Add(x, y) == IF isna(x) \/ isna(y) THEN NaN ELSE Fl(Val(x) + Val(y))
Sub(x, y) == IF isna(x) \/ isna(y) THEN NaN ELSE Fl(Val(x) - Val(y))
Scale(num, den, x) == IF isna(x) THEN NaN ELSE Fl((num * Val(x)) \div den)

\* the integer nearest to num/den (den > 0), ties to the even neighbour
RoundHalfEven(num, den) ==
    LET q == num \div den
        r == num % den
    IN  IF 2 * r < den THEN q
        ELSE IF 2 * r > den THEN q + 1
        ELSE IF q % 2 = 0 THEN q ELSE q + 1

\* round(float(x), 2) of a thousandths value, in hundredths
Round2(x) == RoundHalfEven(Val(x), 10)
\* round(float(q), 2) of a fraction <<num, den>> of plain units, in hundredths
Round2Frac(q) == RoundHalfEven(q[1] * 100, q[2])
\* a < b on fractions with positive denominators
FracLt(a, b) == a[1] * b[2] < b[1] * a[2]

Row(frame, i) == frame[i + 1]

----------------------------------------------------------------------------
(* Indicator layer (core/indicators.py).  The rolling statistics of a bar  *)
(* (mean, standard deviation, EMA, ATR, regression value, 200-bar mean)    *)
(* are inputs of the row; the columns derived from them are computed as    *)
(* the source computes them.                                               *)

\* faulty variant of calculate_bollinger_bands: the deviation is subtracted
\* for the upper band and added for the lower band
calculate_bollinger_bands_swapped(b) ==
    LET middle == b.sma
        upper  == Sub(middle, Scale(BB_STD_DEV, 1, b.std))
        lower  == Add(middle, Scale(BB_STD_DEV, 1, b.std))
        width  == IF isna(upper) \/ isna(lower) \/ isna(middle) THEN NaN
                  ELSE IF Val(upper) = Val(lower) /\ Val(middle) = 0 THEN NaN
                  ELSE <<(Val(upper) - Val(lower)) * 100, Val(middle)>>
    IN  [BB_Middle |-> middle, BB_Upper |-> upper, BB_Lower |-> lower,
         BB_Width |-> width]

\* BB_Middle, BB_Upper, BB_Lower, BB_Width
calculate_bollinger_bands(b) ==
    LET middle == b.sma
        upper  == Add(middle, Scale(BB_STD_DEV, 1, b.std))
        lower  == Sub(middle, Scale(BB_STD_DEV, 1, b.std))
        width  == IF isna(upper) \/ isna(lower) \/ isna(middle) THEN NaN
                  ELSE IF Val(upper) = Val(lower) /\ Val(middle) = 0 THEN NaN
                  ELSE <<(Val(upper) - Val(lower)) * 100, Val(middle)>>
    IN  [BB_Middle |-> middle, BB_Upper |-> upper, BB_Lower |-> lower,
         BB_Width |-> width]

\* KC_Middle, ATR, KC_Upper, KC_Lower
calculate_keltner_channels(b) ==
    LET middle == b.ema
        reach  == Scale(KC_ATR_MULTIPLIER_NUM, KC_ATR_MULTIPLIER_DEN, b.atr)
    IN  [KC_Middle |-> middle, ATR |-> b.atr,
         KC_Upper |-> Add(middle, reach), KC_Lower |-> Sub(middle, reach)]

\* DMA_200, Above_DMA_200
calculate_200_dma(b) ==
    [DMA_200 |-> b.dma, Above_DMA_200 |-> Gt(b.Close, b.dma)]

\* x <= y and x >= y, false when an operand is NaN
Le(x, y) == ~isna(x) /\ ~isna(y) /\ Val(x) <= Val(y)
Ge(x, y) == ~isna(x) /\ ~isna(y) /\ Val(x) >= Val(y)

\* np.select(conditions, choices, default='NEUTRAL'): the first condition
\* that holds decides
momentum_direction(momentum, momentum_prev) ==
    IF Gt(momentum, Fl(0)) /\ Gt(momentum, momentum_prev) THEN "BULLISH_UP"
    ELSE IF Gt(momentum, Fl(0)) /\ Le(momentum, momentum_prev) THEN "BULLISH_DOWN"
    ELSE IF Lt(momentum, Fl(0)) /\ Lt(momentum, momentum_prev) THEN "BEARISH_DOWN"
    ELSE IF Lt(momentum, Fl(0)) /\ Ge(momentum, momentum_prev) THEN "BEARISH_UP"
    ELSE "NEUTRAL"

\* Momentum_Direction at position k (1-based) of the series;
\* momentum_prev = df['Squeeze_Momentum'].shift(1) is NaN on the first bar
calculate_momentum(series, k) ==
    [Momentum_Direction |->
        momentum_direction(series[k].mom, IF k = 1 THEN NaN ELSE series[k - 1].mom)]

\* one row of calculate_all_indicators
calculate_all_indicators(b) ==
    LET bb == calculate_bollinger_bands(b)
        kc == calculate_keltner_channels(b)
        tr == calculate_200_dma(b)
    IN  [Close |-> b.Close,
         BB_Middle |-> bb.BB_Middle, BB_Upper |-> bb.BB_Upper,
         BB_Lower |-> bb.BB_Lower, BB_Width |-> bb.BB_Width,
         KC_Middle |-> kc.KC_Middle, ATR |-> kc.ATR,
         KC_Upper |-> kc.KC_Upper, KC_Lower |-> kc.KC_Lower,
         Squeeze_Momentum |-> b.mom,
         DMA_200 |-> tr.DMA_200, Above_DMA_200 |-> tr.Above_DMA_200]

----------------------------------------------------------------------------
(* Squeeze state machine: detect_squeeze *)

\* faulty variant of SqueezeOn: the bounds compared non-strictly
SqueezeOn_NonStrict(r) ==
    /\ ~isna(r.BB_Lower) /\ ~isna(r.KC_Lower) /\ Val(r.BB_Lower) >= Val(r.KC_Lower)
    /\ ~isna(r.BB_Upper) /\ ~isna(r.KC_Upper) /\ Val(r.BB_Upper) <= Val(r.KC_Upper)

\* Squeeze_On of one indicator row
SqueezeOn(r) == Gt(r.BB_Lower, r.KC_Lower) /\ Lt(r.BB_Upper, r.KC_Upper)

\* faulty variant of squeeze_on_shifted: the missing predecessor read as True
squeeze_on_shifted_filled_true(on, i) == IF i = 0 THEN TRUE ELSE Row(on, i - 1)

\* Squeeze_On.shift(1) with the missing predecessor replaced by False
squeeze_on_shifted(on, i) == IF i = 0 THEN FALSE ELSE Row(on, i - 1)

\* faulty variant of SqueezeFire: the flag stays set on every OFF bar after
\* the first bar, whatever the previous bar was
SqueezeFire_every_off_bar(on, i) == i > 0 /\ ~Row(on, i)

\* Squeeze_Fire at position i, from the Squeeze_On column
SqueezeFire(on, i) == squeeze_on_shifted(on, i) /\ ~Row(on, i)

\* faulty variant of squeeze_duration: the count is not reset on an OFF bar
RECURSIVE squeeze_duration_no_reset(_, _)
squeeze_duration_no_reset(on, i) ==
    IF i < 0 THEN 0
    ELSE IF Row(on, i) THEN squeeze_duration_no_reset(on, i - 1) + 1
    ELSE squeeze_duration_no_reset(on, i - 1)

\* the running count after position i (the loop over Squeeze_On)
RECURSIVE squeeze_duration(_, _)
squeeze_duration(on, i) ==
    IF i < 0 THEN 0
    ELSE IF Row(on, i) THEN squeeze_duration(on, i - 1) + 1
    ELSE 0

\* the Squeeze_On column of an indicator frame
squeeze_on_column(ind) == [k \in 1..Len(ind) |-> SqueezeOn(ind[k])]

\* the frame with Squeeze_On, Squeeze_Off, Squeeze_Fire, Squeeze_Duration added
squeeze_columns(ind, on) ==
    [k \in 1..Len(ind) |->
        ind[k] @@ [Squeeze_On |-> on[k],
                   Squeeze_Off |-> ~on[k],
                   Squeeze_Fire |-> SqueezeFire(on, k - 1),
                   Squeeze_Duration |-> squeeze_duration(on, k - 1)]]

\* the squeeze detection on a frame that has its indicator columns
squeeze_detection(ind) == squeeze_columns(ind, squeeze_on_column(ind))

\* the frame of calculate_all_indicators with the squeeze columns added;
\* Momentum_Direction needs the previous bar and is merged in per position
detect_squeeze(series) ==
    squeeze_detection([k \in 1..Len(series) |->
        calculate_all_indicators(series[k]) @@ calculate_momentum(series, k)])

----------------------------------------------------------------------------
(* Entry/breakout validator: detect_entry_signals *)

\* momentum of the fire bar, an undefined value read as 0
fire_momentum(r) == IF isna(r.Squeeze_Momentum) THEN Fl(0) ELSE r.Squeeze_Momentum

\* faulty variant of bullish_breakout: the close is not compared with the band
bullish_breakout_momentum_only(momentum, close, bb_upper) == Gt(momentum, Fl(0))

\* "if momentum > 0 and close > bb_upper"
bullish_breakout(momentum, close, bb_upper) ==
    Gt(momentum, Fl(0)) /\ Gt(close, bb_upper)

\* "elif momentum < 0 and close < bb_lower"
bearish_breakout(momentum, close, bb_lower) ==
    Lt(momentum, Fl(0)) /\ Lt(close, bb_lower)

\* faulty variant of above_200_dma: a missing 200 DMA passes the validation
above_200_dma_or_missing(close, dma_200) == isna(dma_200) \/ Gt(close, dma_200)

\* "if dma_200 is not None and close > dma_200"
above_200_dma(close, dma_200) == ~isna(dma_200) /\ Gt(close, dma_200)

\* "if dma_200 is not None and close < dma_200"
below_200_dma(close, dma_200) == ~isna(dma_200) /\ Lt(close, dma_200)

\* faulty variant of signal_type: the 'Invalid Breakout' assignment is missing
signal_type_without_invalid(long_signal, short_signal, breakout_detected, is_valid) ==
    IF short_signal THEN "Bearish Breakout (Valid)"
    ELSE IF long_signal THEN "Bullish Breakout (Valid)"
    ELSE "None"

\* the signal_type column, assigned in source order: the last match stays
signal_type(long_signal, short_signal, breakout_detected, is_valid_breakout) ==
    IF breakout_detected /\ ~is_valid_breakout THEN "Invalid Breakout"
    ELSE IF short_signal THEN "Bearish Breakout (Valid)"
    ELSE IF long_signal THEN "Bullish Breakout (Valid)"
    ELSE "None"

\* faulty variant of entry_signal_row: the test "if df['Squeeze_Fire'].iloc[i]"
\* is left out, every bar from position 1 on is examined
entry_signal_row_every_bar(frame, i) ==
    LET r        == Row(frame, i)
        visited  == i >= 1
        momentum == fire_momentum(r)
        bull     == visited /\ bullish_breakout(momentum, r.Close, r.BB_Upper)
        bear     == visited /\ ~bull /\ bearish_breakout(momentum, r.Close, r.BB_Lower)
        long     == bull /\ above_200_dma(r.Close, r.DMA_200)
        short    == bear /\ below_200_dma(r.Close, r.DMA_200)
        reason   == IF bull /\ ~long THEN "Price below 200 DMA (bullish invalid)"
                    ELSE IF bear /\ ~short THEN "Price above 200 DMA (bearish invalid)"
                    ELSE ""
    IN  [long_signal |-> long,
         short_signal |-> short,
         breakout_detected |-> bull \/ bear,
         is_valid_breakout |-> long \/ short,
         invalid_reason |-> reason,
         signal_type |-> signal_type(long, short, bull \/ bear, long \/ short)]

\* the signal columns of position i; the loop runs over range(1, len(df))
entry_signal_row(frame, i) ==
    LET r        == Row(frame, i)
        visited  == i >= 1 /\ r.Squeeze_Fire
        momentum == fire_momentum(r)
        bull     == visited /\ bullish_breakout(momentum, r.Close, r.BB_Upper)
        bear     == visited /\ ~bull /\ bearish_breakout(momentum, r.Close, r.BB_Lower)
        long     == bull /\ above_200_dma(r.Close, r.DMA_200)
        short    == bear /\ below_200_dma(r.Close, r.DMA_200)
        reason   == IF bull /\ ~long THEN "Price below 200 DMA (bullish invalid)"
                    ELSE IF bear /\ ~short THEN "Price above 200 DMA (bearish invalid)"
                    ELSE ""
    IN  [long_signal |-> long,
         short_signal |-> short,
         breakout_detected |-> bull \/ bear,
         is_valid_breakout |-> long \/ short,
         invalid_reason |-> reason,
         signal_type |-> signal_type(long, short, bull \/ bear, long \/ short)]

detect_entry_signals(frame) ==
    [k \in 1..Len(frame) |-> entry_signal_row(frame, k - 1)]

----------------------------------------------------------------------------
(* Squeeze history extractor: get_squeeze_history *)

\* end_date of an episode that has not fired
Ongoing == <<>>

\* faulty variant of squeeze_started: every ON bar opens an episode
squeeze_started_every_on_bar(squeeze_on, in_squeeze) == squeeze_on

\* "if row['Squeeze_On'] and not in_squeeze"
squeeze_started(squeeze_on, in_squeeze) == squeeze_on /\ ~in_squeeze
\* "elif row['Squeeze_On'] and in_squeeze"
squeeze_continues(squeeze_on, in_squeeze) == squeeze_on /\ in_squeeze
\* "elif not row['Squeeze_On'] and in_squeeze"
squeeze_ended(squeeze_on, in_squeeze) == ~squeeze_on /\ in_squeeze

\* the running minimum at the start of an episode
initial_min_bb_width(width) ==
    IF ~isna(width) THEN width ELSE <<WIDTH_PLACEHOLDER, 1>>

\* faulty variant of updated_min_bb_width: the starting width is kept
updated_min_bb_width_keeps_first(width, min_bb_width) == min_bb_width

\* the running minimum after one more ON bar
updated_min_bb_width(width, min_bb_width) ==
    IF ~isna(width) /\ FracLt(width, min_bb_width) THEN width ELSE min_bb_width

\* faulty variant of breakout_direction: the momentum-only fallback on every bar
breakout_direction_momentum_only(momentum, price, dma_200) ==
    IF Gt(momentum, Fl(0)) THEN "BULLISH" ELSE "BEARISH"

\* direction of a fired episode from momentum and the 200 DMA position
breakout_direction(momentum, price, dma_200) ==
    IF ~isna(dma_200)
    THEN IF Gt(momentum, Fl(0)) /\ Gt(price, dma_200) THEN "BULLISH"
         ELSE IF Lt(momentum, Fl(0)) /\ Lt(price, dma_200) THEN "BEARISH"
         ELSE "INVALID"
    ELSE IF Gt(momentum, Fl(0)) THEN "BULLISH" ELSE "BEARISH"

\* min(a, b)
Min(a, b) == IF a < b THEN a ELSE b

\* price_5d, price_10d, price_20d: the close sampled horizon bars after i
forward_price(frame, i, horizon) ==
    IF i + horizon < Len(frame)
    THEN Row(frame, Min(i + horizon, Len(frame) - 1)).Close
    ELSE Row(frame, i).Close

\* round(((price_n - price_at_breakout) / price_at_breakout) * 100, 2)
price_move(price_n, price_at_breakout) ==
    Round2Frac(<<(Val(price_n) - Val(price_at_breakout)) * 100,
                 Val(price_at_breakout)>>)

\* "round(float(min_bb_width), 2) if min_bb_width else 0"
reported_min_bb_width(min_bb_width) ==
    IF min_bb_width = NaN \/ min_bb_width[1] = 0 THEN 0
    ELSE Round2Frac(min_bb_width)

\* "round(float(x), 2) if not pd.isna(x) else 0" of a width
reported_bb_width(width) == IF isna(width) THEN 0 ELSE Round2Frac(width)

\* "round(float(m), 4) if not pd.isna(m) else 0", in thousandths
reported_momentum(m) == IF isna(m) THEN 0 ELSE Val(m)

\* faulty variant of closed_event: bb_width_before read from the fire bar
closed_event_width_of_fire_bar(frame, i, start_idx, min_bb_width) ==
    LET row      == Row(frame, i)
        price_at_breakout == row.Close
    IN  [start_date |-> start_idx,
         end_date |-> <<i>>,
         duration |-> i - start_idx,
         direction |-> breakout_direction(row.Squeeze_Momentum, row.Close, row.DMA_200),
         bb_width_before |-> reported_bb_width(row.BB_Width),
         min_bb_width |-> reported_min_bb_width(min_bb_width),
         price_at_breakout |-> Round2(price_at_breakout),
         move_5d |-> price_move(forward_price(frame, i, HORIZON_5), price_at_breakout),
         move_10d |-> price_move(forward_price(frame, i, HORIZON_10), price_at_breakout),
         move_20d |-> price_move(forward_price(frame, i, HORIZON_20), price_at_breakout),
         momentum |-> reported_momentum(row.Squeeze_Momentum)]

\* the event appended when the episode begun at start_idx fires at i
closed_event(frame, i, start_idx, min_bb_width) ==
    LET row      == Row(frame, i)
        prev_row == IF i > 0 THEN Row(frame, i - 1) ELSE row
        price_at_breakout == row.Close
    IN  [start_date |-> start_idx,
         end_date |-> <<i>>,
         duration |-> i - start_idx,
         direction |-> breakout_direction(row.Squeeze_Momentum, row.Close, row.DMA_200),
         bb_width_before |-> reported_bb_width(prev_row.BB_Width),
         min_bb_width |-> reported_min_bb_width(min_bb_width),
         price_at_breakout |-> Round2(price_at_breakout),
         move_5d |-> price_move(forward_price(frame, i, HORIZON_5), price_at_breakout),
         move_10d |-> price_move(forward_price(frame, i, HORIZON_10), price_at_breakout),
         move_20d |-> price_move(forward_price(frame, i, HORIZON_20), price_at_breakout),
         momentum |-> reported_momentum(row.Squeeze_Momentum)]

\* faulty variant of ongoing_event: the duration stops short of the last bar
ongoing_event_without_last_bar(frame, start_idx, min_bb_width) ==
    LET latest == Row(frame, Len(frame) - 1)
    IN  [start_date |-> start_idx,
         end_date |-> Ongoing,
         duration |-> Len(frame) - 1 - start_idx,
         direction |-> "PENDING",
         bb_width_before |-> reported_bb_width(latest.BB_Width),
         min_bb_width |-> reported_min_bb_width(min_bb_width),
         price_at_breakout |-> 0,
         move_5d |-> 0,
         move_10d |-> 0,
         move_20d |-> 0,
         momentum |-> reported_momentum(latest.Squeeze_Momentum)]

\* the event appended after the loop for an episode still open
ongoing_event(frame, start_idx, min_bb_width) ==
    LET latest == Row(frame, Len(frame) - 1)
    IN  [start_date |-> start_idx,
         end_date |-> Ongoing,
         duration |-> Len(frame) - start_idx,
         direction |-> "PENDING",
         bb_width_before |-> reported_bb_width(latest.BB_Width),
         min_bb_width |-> reported_min_bb_width(min_bb_width),
         price_at_breakout |-> 0,
         move_5d |-> 0,
         move_10d |-> 0,
         move_20d |-> 0,
         momentum |-> reported_momentum(latest.Squeeze_Momentum)]

\* the loop's locals before the first bar; None is the empty tuple
history_start ==
    [events |-> <<>>, in_squeeze |-> FALSE, start_idx |-> <<>>, min_bb_width |-> NaN]

\* one iteration of "for i in range(len(df))"
history_step(frame, i, st) ==
    LET row == Row(frame, i)
    IN  IF squeeze_started(row.Squeeze_On, st.in_squeeze)
        THEN [st EXCEPT !.in_squeeze = TRUE,
                        !.start_idx = <<i>>,
                        !.min_bb_width = initial_min_bb_width(row.BB_Width)]
        ELSE IF squeeze_continues(row.Squeeze_On, st.in_squeeze)
        THEN [st EXCEPT !.min_bb_width =
                            updated_min_bb_width(row.BB_Width, st.min_bb_width)]
        ELSE IF squeeze_ended(row.Squeeze_On, st.in_squeeze)
        THEN [st EXCEPT !.in_squeeze = FALSE,
                        !.events = Append(st.events,
                            closed_event(frame, i, st.start_idx[1], st.min_bb_width)),
                        !.min_bb_width = NaN]
        ELSE st

\* the locals after iterations 0..i
RECURSIVE history_loop(_, _)
history_loop(frame, i) ==
    IF i < 0 THEN history_start
    ELSE history_step(frame, i, history_loop(frame, i - 1))

\* faulty variant of still_in_squeeze: any episode ever opened counts as open
still_in_squeeze_any_start(in_squeeze, start_idx) == start_idx # <<>>

\* "if in_squeeze and start_idx is not None"
still_in_squeeze(in_squeeze, start_idx) == in_squeeze /\ start_idx # <<>>

get_squeeze_history(frame) ==
    LET st == history_loop(frame, Len(frame) - 1)
    IN  IF still_in_squeeze(st.in_squeeze, st.start_idx)
        THEN Append(st.events, ongoing_event(frame, st.start_idx[1], st.min_bb_width))
        ELSE st.events

----------------------------------------------------------------------------
(* Input rows *)

\* a row: the close and the rolling statistics of the bar
Bar(close, sma, std, ema, atr, mom, dma) ==
    [Close |-> close, sma |-> sma, std |-> std, ema |-> ema, atr |-> atr,
     mom |-> mom, dma |-> dma]

\* Rows of the squeeze state machine specification.  The Keltner channel is
\* 1500..4500 or undefined (ATR warm-up); the Bollinger band is undefined
\* (warm-up), strictly inside, touching the lower bound, touching the upper
\* bound or outside.
SqueezeBars ==
    { Bar(Fl(3000), bb[1], bb[2], Fl(3000), atr, NaN, NaN) :
        bb \in { <<NaN, NaN>>,
                 <<Fl(3000), Fl(500)>>,     \* 2000..4000, inside
                 <<Fl(2500), Fl(500)>>,     \* 1500..3500, lower bound equal
                 <<Fl(3500), Fl(500)>>,     \* 2500..4500, upper bound equal
                 <<Fl(3000), Fl(1000)>> },  \* 1000..5000, outside
        atr \in { NaN, Fl(1000) } }

\* Rows of the breakout validator specification.  The Keltner channel is
\* 1500..4500; the Bollinger band is 2000..4000 (ON) or 1500..4500 (OFF); the
\* close is below or above both bands; the 200 DMA is undefined, at the lower
\* close or at the upper close.
SignalBars ==
    { Bar(close, Fl(3000), std, Fl(3000), Fl(1000), mom, dma) :
        close \in { Fl(1000), Fl(5000) },
        std \in { Fl(500), Fl(750) },
        mom \in { NaN, Fl(-1000), Fl(0), Fl(1000) },
        dma \in { NaN, Fl(1000), Fl(5000) } }

\* Rows of the history extractor specification: ON or OFF, two closes,
\* positive momentum, no 200 DMA yet.
HistoryBars ==
    { Bar(close, Fl(3000), std, Fl(3000), Fl(1000), Fl(1000), NaN) :
        close \in { Fl(3000), Fl(4000) },
        std \in { Fl(500), Fl(750) } }

----------------------------------------------------------------------------
(* The state machine *)

Init ==
    /\ bars = <<>>
    /\ df = <<>>
    /\ signals = <<>>
    /\ events = <<>>
    /\ done = {}
    /\ phase = "idle"
    /\ futures = <<>>
    /\ results = <<>>
    /\ completed = 0
    /\ progress = <<>>
    /\ table = <<>>

\* fetch_stock_data delivers the next bar of the series
FetchBar(Domain, MaxN) ==
    /\ done = {}
    /\ Len(bars) < MaxN
    /\ \E b \in Domain : bars' = Append(bars, b)
    /\ UNCHANGED <<df, signals, events, done>>
    /\ UNCHANGED scan_vars

\* the frame an operation works on: the caller's, or, when the squeeze
\* columns are missing, the one it computes itself
Frame == IF "squeeze" \in done THEN df ELSE detect_squeeze(bars)

\* df = detect_squeeze(df)
DetectSqueeze ==
    /\ "squeeze" \notin done
    /\ df' = detect_squeeze(bars)
    /\ done' = done \cup {"squeeze"}
    /\ UNCHANGED <<bars, signals, events>>
    /\ UNCHANGED scan_vars

\* df = detect_entry_signals(df)
DetectEntrySignals ==
    /\ "signals" \notin done
    /\ df' = Frame
    /\ signals' = detect_entry_signals(Frame)
    /\ done' = done \cup {"squeeze", "signals"}
    /\ UNCHANGED <<bars, events>>
    /\ UNCHANGED scan_vars

\* events = get_squeeze_history(df)
GetSqueezeHistory ==
    /\ "history" \notin done
    /\ events' = get_squeeze_history(Frame)
    /\ done' = done \cup {"history"}
    /\ UNCHANGED <<bars, df, signals>>
    /\ UNCHANGED scan_vars

Next ==
    \/ FetchBar(SqueezeBars, MaxBars)
    \/ DetectSqueeze

Spec == Init /\ [][Next]_vars

NextSignals ==
    \/ FetchBar(SignalBars, MaxSignalBars)
    \/ DetectSqueeze
    \/ DetectEntrySignals
    \/ GetSqueezeHistory

SpecSignals == Init /\ [][NextSignals]_vars

NextHistory ==
    \/ FetchBar(HistoryBars, MaxHistoryBars)
    \/ DetectSqueeze
    \/ GetSqueezeHistory

SpecHistory == Init /\ [][NextHistory]_vars

----------------------------------------------------------------------------
(* Properties *)

Squeezed == "squeeze" \in done
Positions == 0..(Len(df) - 1)

\* C1: in the output of detect_squeeze, Squeeze_Fire holds at position i
\* exactly when i > 0, the previous bar is ON and this bar is not ON; the
\* first bar is never a fire bar.
C1_FireIffOnThenOff ==
    Squeezed =>
        \A i \in Positions :
            Row(df, i).Squeeze_Fire <=>
                (i > 0 /\ Row(df, i - 1).Squeeze_On /\ ~Row(df, i).Squeeze_On)

\* an OFF first bar, an ON bar and the fire bar after it
C1_Witness ==
    /\ Squeezed
    /\ Len(df) >= 3
    /\ ~Row(df, 0).Squeeze_On /\ ~Row(df, 0).Squeeze_Fire
    /\ Row(df, 1).Squeeze_On
    /\ Row(df, 2).Squeeze_Fire

\* C2: Squeeze_Duration is 0 on every OFF bar, 1 on the first ON bar of a
\* run (predecessor OFF or absent), the previous bar's value plus 1 on every
\* other ON bar, and never negative.
C2_DurationCountsRun ==
    Squeezed =>
        \A i \in Positions :
            LET r == Row(df, i)
                first == i = 0 \/ ~Row(df, i - 1).Squeeze_On
            IN  /\ r.Squeeze_Duration >= 0
                /\ ~r.Squeeze_On => r.Squeeze_Duration = 0
                /\ r.Squeeze_On /\ first => r.Squeeze_Duration = 1
                /\ r.Squeeze_On /\ ~first =>
                       r.Squeeze_Duration = Row(df, i - 1).Squeeze_Duration + 1

\* a run of two ON bars, the OFF bar that resets the count and a new run
C2_Witness ==
    /\ Squeezed
    /\ Len(df) >= 4
    /\ Row(df, 0).Squeeze_Duration = 1
    /\ Row(df, 1).Squeeze_Duration = 2
    /\ Row(df, 2).Squeeze_Duration = 0
    /\ Row(df, 3).Squeeze_Duration = 1

\* every band value of the row is defined
BandsDefined(r) ==
    ~isna(r.BB_Lower) /\ ~isna(r.BB_Upper) /\ ~isna(r.KC_Lower) /\ ~isna(r.KC_Upper)

\* C3: every bar is exactly one of ON and OFF, and it is ON exactly when the
\* four band values are defined, BB_Lower > KC_Lower and BB_Upper < KC_Upper,
\* both strictly.
C3_OnIffStrictlyInside ==
    Squeezed =>
        \A i \in Positions :
            LET r == Row(df, i)
            IN  /\ r.Squeeze_Off = ~r.Squeeze_On
                /\ r.Squeeze_On <=>
                       /\ BandsDefined(r)
                       /\ Val(r.BB_Lower) > Val(r.KC_Lower)
                       /\ Val(r.BB_Upper) < Val(r.KC_Upper)

\* an ON bar, a bar OFF because a bound is equal, a bar OFF in warm-up
C3_Witness ==
    /\ Squeezed
    /\ \E i \in Positions : Row(df, i).Squeeze_On
    /\ \E i \in Positions :
          LET r == Row(df, i)
          IN  /\ BandsDefined(r) /\ r.Squeeze_Off
              /\ Val(r.BB_Lower) = Val(r.KC_Lower)
              /\ Val(r.BB_Upper) < Val(r.KC_Upper)
    /\ \E i \in Positions :
          LET r == Row(df, i)
          IN  /\ BandsDefined(r) /\ r.Squeeze_Off
              /\ Val(r.BB_Lower) > Val(r.KC_Lower)
              /\ Val(r.BB_Upper) = Val(r.KC_Upper)
    /\ \E i \in Positions : ~BandsDefined(Row(df, i)) /\ Row(df, i).Squeeze_Off

----------------------------------------------------------------------------
(* Properties of get_squeeze_history *)

\* the history was extracted and the frame it read is in df
HistoryDone == "history" \in done /\ Squeezed

\* the event positions of the returned list
EventIds == 1..Len(events)

\* the first ON bar of every maximal run of ON bars
RunStarts ==
    { s \in Positions :
        Row(df, s).Squeeze_On /\ (s = 0 \/ ~Row(df, s - 1).Squeeze_On) }

\* the OFF bars after position s
OffAfter(s) == { j \in Positions : j > s /\ ~Row(df, j).Squeeze_On }

\* the first OFF bar after position s, when there is one
FirstOffAfter(s) == CHOOSE j \in OffAfter(s) : \A k \in OffAfter(s) : j <= k

\* C4: get_squeeze_history returns one event per maximal run of ON bars, in
\* increasing order of start; each event starts on the first ON bar of its
\* run (also a run that begins on the first bar) and a closed event ends on
\* the first OFF bar after the run.
C4_OneEventPerRun ==
    HistoryDone =>
        /\ Len(events) = Cardinality(RunStarts)
        /\ \A k \in EventIds :
              /\ events[k].start_date \in RunStarts
              /\ k > 1 => events[k - 1].start_date < events[k].start_date
              /\ events[k].end_date # Ongoing =>
                    /\ OffAfter(events[k].start_date) # {}
                    /\ events[k].end_date = <<FirstOffAfter(events[k].start_date)>>

\* two closed episodes, the first beginning on the first bar and two bars long
C4_Witness ==
    /\ HistoryDone
    /\ Len(events) >= 2
    /\ events[1].start_date = 0
    /\ events[1].end_date = <<2>>
    /\ events[2].end_date # Ongoing

\* the events marked PENDING, and those whose end is "Ongoing"
PendingIds == { k \in EventIds : events[k].direction = "PENDING" }
OngoingIds == { k \in EventIds : events[k].end_date = Ongoing }

\* the series ends on an ON bar
LastBarOn == Len(df) > 0 /\ Row(df, Len(df) - 1).Squeeze_On

\* the series ends on a fire bar
LastBarFire == Len(df) > 0 /\ Row(df, Len(df) - 1).Squeeze_Fire

\* C5: a PENDING event with end "Ongoing" is emitted exactly when the last
\* bar is ON; there is at most one, it is the last event, its price and
\* forward moves are 0; a series ending on a fire bar yields the closed event
\* of that bar and no PENDING event.
C5_PendingIffLastBarOn ==
    HistoryDone =>
        /\ PendingIds = OngoingIds
        /\ PendingIds # {} <=> LastBarOn
        /\ Cardinality(PendingIds) <= 1
        /\ \A k \in PendingIds :
              /\ k = Len(events)
              /\ events[k].price_at_breakout = 0
              /\ events[k].move_5d = 0
              /\ events[k].move_10d = 0
              /\ events[k].move_20d = 0
        /\ LastBarFire =>
              /\ PendingIds = {}
              /\ Len(events) >= 1
              /\ events[Len(events)].end_date = <<Len(df) - 1>>
              /\ \A k \in EventIds :
                    k < Len(events) => events[k].end_date # <<Len(df) - 1>>

\* a closed episode followed by one still open at the end of the series
C5_Witness ==
    /\ HistoryDone
    /\ Len(events) = 2
    /\ events[1].direction # "PENDING"
    /\ events[2].direction = "PENDING"
    /\ LastBarOn

\* the close the claim samples for a fire bar f and a horizon: bar f + horizon,
\* or the last bar of the series when that is past the end
ClampedClose(f, horizon) == Row(df, Min(f + horizon, Len(df) - 1)).Close

\* C6: for every closed event with fire bar f and each horizon N of 5, 10, 20,
\* move_Nd is the rounded percentage change from Close[f] to
\* Close[min(f + N, n - 1)].
C6_MoveSampledAtClampedBar ==
    HistoryDone =>
        \A k \in EventIds :
            events[k].end_date # Ongoing =>
                LET f == events[k].end_date[1]
                    at_fire == Row(df, f).Close
                IN  /\ events[k].move_5d =
                          price_move(ClampedClose(f, HORIZON_5), at_fire)
                    /\ events[k].move_10d =
                          price_move(ClampedClose(f, HORIZON_10), at_fire)
                    /\ events[k].move_20d =
                          price_move(ClampedClose(f, HORIZON_20), at_fire)

\* C7: for every event whose fire bar has a defined DMA_200, BULLISH implies
\* Close > DMA_200 at the fire bar and BEARISH implies Close < DMA_200.
C7_DirectionAgreesWithTrend ==
    HistoryDone =>
        \A k \in EventIds :
            events[k].end_date # Ongoing =>
                LET r == Row(df, events[k].end_date[1])
                IN  ~isna(r.DMA_200) =>
                        /\ events[k].direction = "BULLISH" =>
                              Val(r.Close) > Val(r.DMA_200)
                        /\ events[k].direction = "BEARISH" =>
                              Val(r.Close) < Val(r.DMA_200)

\* a BEARISH event whose fire bar has a 200 DMA above the close
C7_Witness ==
    /\ HistoryDone
    /\ \E k \in EventIds :
          /\ events[k].end_date # Ongoing
          /\ events[k].direction = "BEARISH"
          /\ ~isna(Row(df, events[k].end_date[1]).DMA_200)

----------------------------------------------------------------------------
(* Properties of detect_entry_signals *)

\* the signals were computed; df is the frame detect_entry_signals returned
SignalsDone == "signals" \in done

\* Squeeze_Momentum of the row with an undefined value read as 0
MomentumOrZero(r) ==
    IF isna(r.Squeeze_Momentum) THEN 0 ELSE Val(r.Squeeze_Momentum)

\* momentum > 0 and Close > BB_Upper
BullishAligned(r) ==
    MomentumOrZero(r) > 0 /\ ~isna(r.BB_Upper) /\ Val(r.Close) > Val(r.BB_Upper)

\* momentum < 0 and Close < BB_Lower
BearishAligned(r) ==
    MomentumOrZero(r) < 0 /\ ~isna(r.BB_Lower) /\ Val(r.Close) < Val(r.BB_Lower)

\* Close > DMA_200, false when the 200 DMA is undefined
CloseAboveDma(r) == ~isna(r.DMA_200) /\ Val(r.Close) > Val(r.DMA_200)

\* Close < DMA_200, false when the 200 DMA is undefined
CloseBelowDma(r) == ~isna(r.DMA_200) /\ Val(r.Close) < Val(r.DMA_200)

\* C8: every bar marked as a valid bullish breakout has Close > DMA_200 and
\* every bar marked as a valid bearish breakout has Close < DMA_200.
C8_ValidSignalsRespectTrend ==
    SignalsDone =>
        \A i \in Positions :
            LET r == Row(df, i)
                g == Row(signals, i)
            IN  /\ (g.long_signal \/ g.signal_type = "Bullish Breakout (Valid)")
                       => CloseAboveDma(r)
                /\ (g.short_signal \/ g.signal_type = "Bearish Breakout (Valid)")
                       => CloseBelowDma(r)

\* a bar marked as a valid bullish breakout
C8_Witness ==
    /\ SignalsDone
    /\ \E i \in Positions :
          /\ Row(signals, i).long_signal
          /\ Row(signals, i).signal_type = "Bullish Breakout (Valid)"

\* C9: breakout_detected holds on a bar exactly when the bar is a fire bar
\* with momentum > 0 and Close > BB_Upper, or momentum < 0 and
\* Close < BB_Lower, an undefined momentum read as 0; every other bar has
\* signal_type 'None' and all signal flags false.
C9_BreakoutIffAlignedFire ==
    SignalsDone =>
        \A i \in Positions :
            LET r == Row(df, i)
                g == Row(signals, i)
            IN  /\ g.breakout_detected <=>
                       (r.Squeeze_Fire /\ (BullishAligned(r) \/ BearishAligned(r)))
                /\ ~g.breakout_detected =>
                       /\ g.signal_type = "None"
                       /\ ~g.long_signal
                       /\ ~g.short_signal
                       /\ ~g.is_valid_breakout

\* a fire bar with a detected breakout, after a bar that is aligned but no
\* fire bar and carries no classification
C9_Witness ==
    /\ SignalsDone
    /\ Len(df) = 2
    /\ BullishAligned(Row(df, 0)) /\ Row(signals, 0).signal_type = "None"
    /\ Row(df, 1).Squeeze_Fire /\ Row(signals, 1).breakout_detected

\* C10: a fire bar that is aligned but fails the trend check (bullish with
\* Close not above DMA_200, bearish with Close not below DMA_200) has
\* breakout_detected true, is_valid_breakout false, signal_type
\* 'Invalid Breakout' and a non-empty invalid_reason.
C10_FailedTrendCheckIsInvalidBreakout ==
    SignalsDone =>
        \A i \in Positions :
            LET r == Row(df, i)
                g == Row(signals, i)
            IN  (/\ r.Squeeze_Fire
                 /\ \/ BullishAligned(r) /\ ~CloseAboveDma(r)
                    \/ BearishAligned(r) /\ ~CloseBelowDma(r))
                    => /\ g.breakout_detected
                       /\ ~g.is_valid_breakout
                       /\ g.signal_type = "Invalid Breakout"
                       /\ g.invalid_reason # ""

\* a bullish candidate on a fire bar whose close equals the defined 200 DMA
C10_Witness ==
    /\ SignalsDone
    /\ \E i \in Positions :
          LET r == Row(df, i)
          IN  /\ r.Squeeze_Fire
              /\ BullishAligned(r)
              /\ ~isna(r.DMA_200) /\ Val(r.Close) <= Val(r.DMA_200)
              /\ Row(signals, i).signal_type = "Invalid Breakout"

\* C11: on a fire bar that is aligned (momentum > 0 with Close > BB_Upper, or
\* momentum < 0 with Close < BB_Lower) and whose DMA_200 is undefined, the
\* validator still marks the breakout valid: a valid bullish breakout for
\* momentum > 0, a valid bearish breakout for momentum < 0.
C11_UndefinedTrendStillValid ==
    SignalsDone =>
        \A i \in Positions :
            LET r == Row(df, i)
                g == Row(signals, i)
            IN  (r.Squeeze_Fire /\ isna(r.DMA_200)) =>
                    /\ BullishAligned(r) =>
                          /\ g.is_valid_breakout
                          /\ g.long_signal
                          /\ g.signal_type = "Bullish Breakout (Valid)"
                    /\ BearishAligned(r) =>
                          /\ g.is_valid_breakout
                          /\ g.short_signal
                          /\ g.signal_type = "Bearish Breakout (Valid)"

----------------------------------------------------------------------------
(* Batch scan: scan_single_stock and scan_all_stocks                       *)
(* (core/squeeze_detector.py).  A symbol is its position in stocks_df.     *)
(* fetch_stock_data is the environment: it raises, returns None, or        *)
(* returns a frame, which may be empty, short, or lack a column the scan   *)
(* reads.  The executor starts the queued tasks in submission order on at  *)
(* most MAX_WORKERS threads; they finish in any order and the caller's     *)
(* thread collects them one at a time as as_completed yields them.         *)

\* largest batch of the batch scan specification (SpecScan)
MaxSymbols == 3

\* config.MIN_DATA_POINTS, scaled to the short series of the model
MIN_DATA_POINTS == 2
\* config.MAX_WORKERS, scaled to the small batches of the model
MAX_WORKERS == 2

\* Python's None
None == <<>>

\* what fetch_stock_data(symbol, period) does for one symbol
FetchRaises == [kind |-> "raise", data |-> <<>>]
FetchNone == [kind |-> "none", data |-> <<>>]
FetchFrame(series) == [kind |-> "frame", data |-> series]
\* a frame without a column the result dictionary reads (KeyError)
FetchMalformed(series) == [kind |-> "malformed", data |-> series]

\* how a call ends: by an exception, or by returning a value
Raised == [raised |-> TRUE, value |-> None]
Returned(v) == [raised |-> FALSE, value |-> v]

\* "signal_valid = True; if above_dma_200 is not None: ..."
signal_valid(momentum, above_dma_200) ==
    IF above_dma_200 # None
    THEN IF momentum > 0 THEN above_dma_200[1] ELSE ~above_dma_200[1]
    ELSE TRUE

\* faulty variant of scan_result: squeeze_duration is read from the bar before
\* the latest one
scan_result_previous_duration(symbol, frame) ==
    LET latest   == Row(frame, Len(frame) - 1)
        prev     == IF Len(frame) > 1 THEN Row(frame, Len(frame) - 2) ELSE latest
        dma_200  == IF ~isna(latest.DMA_200) THEN <<Round2(latest.DMA_200)>> ELSE None
        above_dma_200 == <<latest.Above_DMA_200>>
        momentum == reported_momentum(latest.Squeeze_Momentum)
    IN  [symbol |-> symbol,
         current_price |-> Round2(latest.Close),
         price_change_pct |-> price_move(latest.Close, prev.Close),
         squeeze_on |-> latest.Squeeze_On,
         squeeze_off |-> latest.Squeeze_Off,
         squeeze_fire |-> latest.Squeeze_Fire,
         squeeze_duration |-> prev.Squeeze_Duration,
         momentum |-> momentum,
         bb_width |-> reported_bb_width(latest.BB_Width),
         dma_200 |-> dma_200,
         above_dma_200 |-> above_dma_200,
         signal_valid |-> signal_valid(momentum, above_dma_200)]

\* the dictionary scan_single_stock returns for a frame with its squeeze
\* columns; Above_DMA_200 is a boolean column, so pd.isna is False on it
scan_result(symbol, frame) ==
    LET latest   == Row(frame, Len(frame) - 1)
        prev     == IF Len(frame) > 1 THEN Row(frame, Len(frame) - 2) ELSE latest
        dma_200  == IF ~isna(latest.DMA_200) THEN <<Round2(latest.DMA_200)>> ELSE None
        above_dma_200 == <<latest.Above_DMA_200>>
        momentum == reported_momentum(latest.Squeeze_Momentum)
    IN  [symbol |-> symbol,
         current_price |-> Round2(latest.Close),
         price_change_pct |-> price_move(latest.Close, prev.Close),
         squeeze_on |-> latest.Squeeze_On,
         squeeze_off |-> latest.Squeeze_Off,
         squeeze_fire |-> latest.Squeeze_Fire,
         squeeze_duration |-> latest.Squeeze_Duration,
         momentum |-> momentum,
         bb_width |-> reported_bb_width(latest.BB_Width),
         dma_200 |-> dma_200,
         above_dma_200 |-> above_dma_200,
         signal_valid |-> signal_valid(momentum, above_dma_200)]

\* the body of the try block of scan_single_stock
try_scan_single_stock(symbol, fetch) ==
    IF fetch.kind = "raise" THEN Raised
    ELSE IF fetch.kind = "none" \/ Len(fetch.data) = 0
                                \/ Len(fetch.data) < MIN_DATA_POINTS
    THEN Returned(None)
    ELSE IF fetch.kind = "malformed" THEN Raised
    ELSE Returned(<<scan_result(symbol, detect_squeeze(fetch.data))>>)

\* faulty variant of scan_single_stock: no "except Exception"
scan_single_stock_uncaught(symbol, fetch) == try_scan_single_stock(symbol, fetch)

\* "try: ... except Exception as e: print(...); return None"
scan_single_stock(symbol, fetch) ==
    LET outcome == try_scan_single_stock(symbol, fetch)
    IN  IF outcome.raised THEN Returned(None) ELSE outcome

\* 1 for True, 0 for False: the order sort_values gives a boolean column
BoolRank(b) == IF b THEN 1 ELSE 0

\* row a sorts strictly after row b under by=['squeeze_on', 'squeeze_fire',
\* 'squeeze_duration', 'momentum'], ascending=[False, False, False, False]
sorts_after(a, b) ==
    \/ BoolRank(a.squeeze_on) < BoolRank(b.squeeze_on)
    \/ /\ a.squeeze_on = b.squeeze_on
       /\ \/ BoolRank(a.squeeze_fire) < BoolRank(b.squeeze_fire)
          \/ /\ a.squeeze_fire = b.squeeze_fire
             /\ \/ a.squeeze_duration < b.squeeze_duration
                \/ /\ a.squeeze_duration = b.squeeze_duration
                   /\ a.momentum < b.momentum

\* row placed into a sorted list, behind the rows it ties with
RECURSIVE insert_sorted(_, _)
insert_sorted(sorted, row) ==
    IF sorted = <<>> THEN <<row>>
    ELSE IF sorts_after(Head(sorted), row) THEN <<row>> \o sorted
    ELSE <<Head(sorted)>> \o insert_sorted(Tail(sorted), row)

\* faulty variant of sort_values: the rows stay in completion order
RECURSIVE sort_values_unsorted(_)
sort_values_unsorted(rows) ==
    IF rows = <<>> THEN <<>>
    ELSE Append(sort_values_unsorted(SubSeq(rows, 1, Len(rows) - 1)), rows[Len(rows)])

\* df.sort_values(by=[...], ascending=[False, ...]).reset_index(drop=True):
\* the multi-column sort is stable
RECURSIVE sort_values(_)
sort_values(rows) ==
    IF rows = <<>> THEN <<>>
    ELSE insert_sorted(sort_values(SubSeq(rows, 1, Len(rows) - 1)), rows[Len(rows)])

\* Rows of the batch scan specification: an ON bar with rising momentum and
\* no 200 DMA yet, an OFF bar with falling momentum and no 200 DMA yet, an
\* OFF bar with rising momentum above its 200 DMA.
ScanBars ==
    { Bar(Fl(3000), Fl(3000), Fl(500), Fl(3000), Fl(1000), Fl(1000), NaN),
      Bar(Fl(3000), Fl(3000), Fl(750), Fl(3000), Fl(1000), Fl(-1000), NaN),
      Bar(Fl(3000), Fl(3000), Fl(750), Fl(3000), Fl(1000), Fl(1000), Fl(2000)) }

\* the frames fetch_stock_data may return: empty, too short, just long
\* enough, longer
ScanSeries == UNION { [1..n -> ScanBars] : n \in 0..(MIN_DATA_POINTS + 1) }

Fetches ==
    {FetchRaises, FetchNone}
        \cup { FetchFrame(s) : s \in ScanSeries }
        \cup { FetchMalformed(s) : s \in ScanSeries }

\* what the fetch did, as the scan tells the cases apart
FetchClass(fetch) ==
    IF fetch.kind # "frame" THEN fetch.kind
    ELSE IF Len(fetch.data) = 0 THEN "empty"
    ELSE IF Len(fetch.data) < MIN_DATA_POINTS THEN "short"
    ELSE "ok"

\* how the task of each symbol may end, over everything the fetch may do;
\* the class of the fetch is kept with the outcome
ScanOutcomes ==
    [symbol \in 1..MaxSymbols |->
        { [fetch |-> FetchClass(f), outcome |-> scan_single_stock(symbol, f)] :
            f \in Fetches }]

total == Len(futures)
Running == { s \in 1..total : futures[s].state = "running" }

\* scan_all_stocks(stocks_df, progress_callback=...) up to the end of the
\* submit loop: one task per row of stocks_df
ScanAllStocks ==
    /\ phase = "idle"
    /\ \E n \in 0..MaxSymbols :
          futures' = [s \in 1..n |->
                         [state |-> "pending", fetch |-> "", outcome |-> Returned(None)]]
    /\ results' = <<>>
    /\ completed' = 0
    /\ phase' = "collecting"
    /\ UNCHANGED <<progress, table>>
    /\ UNCHANGED series_vars

\* a free worker thread takes the task at the head of the executor's queue
StartTask ==
    /\ Cardinality(Running) < MAX_WORKERS
    /\ \E s \in 1..total :
          /\ futures[s].state = "pending"
          /\ \A t \in 1..(s - 1) : futures[t].state # "pending"
          /\ futures' = [futures EXCEPT ![s].state = "running"]
    /\ UNCHANGED <<phase, results, completed, progress, table>>
    /\ UNCHANGED series_vars

\* a worker thread finishes scan_single_stock and sets its future
FinishTask ==
    /\ \E s \in Running :
          \E end \in ScanOutcomes[s] :
              futures' = [futures EXCEPT ![s] = [state |-> "finished",
                                                 fetch |-> end.fetch,
                                                 outcome |-> end.outcome]]
    /\ UNCHANGED <<phase, results, completed, progress, table>>
    /\ UNCHANGED series_vars

\* faulty variant of Collect: the counter and the callback are skipped for
\* a task without a result
Collect_counts_results_only ==
    /\ phase = "collecting"
    /\ \E s \in 1..total :
          /\ futures[s].state = "finished"
          /\ futures' = [futures EXCEPT ![s].state = "collected"]
          /\ IF futures[s].outcome.raised
             THEN /\ phase' = "raised"
                  /\ UNCHANGED <<results, completed, progress>>
             ELSE IF futures[s].outcome.value # None
             THEN /\ results' = Append(results, futures[s].outcome.value[1])
                  /\ completed' = completed + 1
                  /\ progress' = Append(progress, <<completed + 1, total>>)
                  /\ UNCHANGED phase
             ELSE UNCHANGED <<phase, results, completed, progress>>
    /\ UNCHANGED table
    /\ UNCHANGED series_vars

\* one iteration of "for future in as_completed(futures)"
Collect ==
    /\ phase = "collecting"
    /\ \E s \in 1..total :
          /\ futures[s].state = "finished"
          /\ futures' = [futures EXCEPT ![s].state = "collected"]
          /\ IF futures[s].outcome.raised
             THEN /\ phase' = "raised"
                  /\ UNCHANGED <<results, completed, progress>>
             ELSE /\ results' = IF futures[s].outcome.value # None
                                THEN Append(results, futures[s].outcome.value[1])
                                ELSE results
                  /\ completed' = completed + 1
                  /\ progress' = Append(progress, <<completed + 1, total>>)
                  /\ UNCHANGED phase
    /\ UNCHANGED table
    /\ UNCHANGED series_vars

\* faulty variant of ReturnTable: the call returns without waiting for the
\* tasks that have not been collected
ReturnTable_without_waiting ==
    /\ phase = "collecting"
    /\ table' = IF results = <<>> THEN <<>> ELSE sort_values(results)
    /\ phase' = "returned"
    /\ UNCHANGED <<futures, results, completed, progress>>
    /\ UNCHANGED series_vars

\* the loop is exhausted: "if not results: return pd.DataFrame()", else the
\* sorted frame
ReturnTable ==
    /\ phase = "collecting"
    /\ \A s \in 1..total : futures[s].state = "collected"
    /\ table' = IF results = <<>> THEN <<>> ELSE sort_values(results)
    /\ phase' = "returned"
    /\ UNCHANGED <<futures, results, completed, progress>>
    /\ UNCHANGED series_vars

NextScan ==
    \/ ScanAllStocks
    \/ StartTask
    \/ FinishTask
    \/ Collect
    \/ ReturnTable

SpecScan == Init /\ [][NextScan]_vars

----------------------------------------------------------------------------
(* Properties of scan_all_stocks *)

\* scan_all_stocks has returned its table
ScanReturned == phase = "returned"

\* the symbols whose scan failed: the fetch raised, returned None, an empty
\* or a too short frame, or the scan raised on the frame
FailedSymbols == { s \in 1..total : futures[s].fetch # "ok" }
SucceededSymbols == (1..total) \ FailedSymbols

\* the positions of the returned table that hold the row of symbol s
RowsOf(s) == { k \in 1..Len(table) : table[k].symbol = s }

\* C12: no exception of a symbol's scan reaches the caller of
\* scan_all_stocks, and for a batch of N symbols of which k fail the
\* returned table has exactly N - k rows, one for each succeeding symbol.
C12_FailuresAreOmitted ==
    /\ phase # "raised"
    /\ ScanReturned =>
          /\ Len(table) = total - Cardinality(FailedSymbols)
          /\ \A s \in SucceededSymbols : Cardinality(RowsOf(s)) = 1
          /\ \A s \in FailedSymbols : RowsOf(s) = {}

\* a returned batch of three symbols: one whose fetch raised, one whose
\* frame made the scan raise, one that succeeded
C12_Witness ==
    /\ ScanReturned
    /\ total = 3
    /\ \E a, b, c \in 1..total :
          /\ futures[a].fetch = "raise"
          /\ futures[b].fetch = "malformed"
          /\ futures[c].fetch = "ok"
    /\ Len(table) = 1

\* the priority tuple of a row of the returned table
SortKey(r) ==
    <<BoolRank(r.squeeze_on), BoolRank(r.squeeze_fire), r.squeeze_duration, r.momentum>>

\* a >= b in the lexicographic order of the priority tuples
LexGeq(a, b) ==
    \/ a = b
    \/ \E i \in 1..4 : a[i] > b[i] /\ \A j \in 1..(i - 1) : a[j] = b[j]

\* C13: in the table scan_all_stocks returns, every row is greater than or
\* equal to the row after it under the lexicographic tuple (squeeze_on,
\* squeeze_fire, squeeze_duration, momentum), in whatever order the tasks
\* completed.
C13_TableSortedByPriority ==
    ScanReturned =>
        \A k \in 1..(Len(table) - 1) : LexGeq(SortKey(table[k]), SortKey(table[k + 1]))

\* a returned table of three rows with three different priorities that were
\* collected in the opposite order
C13_Witness ==
    /\ ScanReturned
    /\ Len(table) = 3
    /\ \A k \in 1..2 : SortKey(table[k]) # SortKey(table[k + 1])
    /\ \A k \in 1..3 : results[k] = table[4 - k]

----------------------------------------------------------------------------
(* Properties of the indicator columns *)

\* C15: on every bar whose DMA_200 is undefined, Above_DMA_200 is undefined
\* (null) as well, neither True nor False.
C15_AboveTrendNullWhenTrendNull ==
    Squeezed =>
        \A i \in Positions :
            isna(Row(df, i).DMA_200) => Row(df, i).Above_DMA_200 \notin BOOLEAN

----------------------------------------------------------------------------
(* Rolling statistics of an OHLC series (core/indicators.py), with the     *)
(* windows scaled to short series.  The rolling standard deviation stays   *)
(* an input of the bar: pandas returns NaN until the window is full and a  *)
(* value >= 0 afterwards.                                                  *)

\* longest series of the band specification (SpecBands)
MaxBandBars == 3

\* config.BB_PERIOD, config.KC_ATR_PERIOD, config.KC_EMA_PERIOD, scaled
BB_PERIOD == 2
KC_ATR_PERIOD == 2
KC_EMA_PERIOD == 3

Max(a, b) == IF a > b THEN a ELSE b
Abs(a) == IF a < 0 THEN 0 - a ELSE a

\* df['TR']: np.maximum and np.abs propagate the NaN of Close.shift(1)
true_range(high, low, prev_close) ==
    IF isna(prev_close) THEN NaN
    ELSE Fl(Max(Val(high) - Val(low),
                Max(Abs(Val(high) - Val(prev_close)),
                    Abs(Val(low) - Val(prev_close)))))

\* the sum of the last n values of a column without NaN in them
RECURSIVE SumLast(_, _)
SumLast(column, n) ==
    IF n = 0 THEN 0
    ELSE Val(column[Len(column)]) + SumLast(SubSeq(column, 1, Len(column) - 1), n - 1)

\* column.rolling(window=window).mean() at the last position: NaN until the
\* window holds window values, none of them NaN (exact on the values used)
rolling_mean(column, window) ==
    IF Len(column) < window THEN NaN
    ELSE IF \E k \in (Len(column) - window + 1)..Len(column) : isna(column[k]) THEN NaN
    ELSE Fl(SumLast(column, window) \div window)

\* column.ewm(span=span, adjust=False).mean(), one step: alpha = 2/(span+1)
\* (exact on the values used)
ewm_mean(previous, value, span) ==
    IF isna(previous) THEN value
    ELSE Fl(((span - 1) * Val(previous) + 2 * Val(value)) \div (span + 1))

\* the row of a new bar with its rolling statistics, after the rows so far;
\* momentum and the 200 DMA are still in their warm-up
ohlc_bar(history, high, low, close, std) ==
    LET n          == Len(history)
        prev_close == IF n = 0 THEN NaN ELSE history[n].Close
        prev_ema   == IF n = 0 THEN NaN ELSE history[n].ema
        tr         == true_range(high, low, prev_close)
        closes     == [k \in 1..(n + 1) |-> IF k <= n THEN history[k].Close ELSE close]
        trs        == [k \in 1..(n + 1) |-> IF k <= n THEN history[k].TR ELSE tr]
        sma        == rolling_mean(closes, BB_PERIOD)
    IN  Bar(close, sma, IF isna(sma) THEN NaN ELSE std,
            ewm_mean(prev_ema, close, KC_EMA_PERIOD),
            rolling_mean(trs, KC_ATR_PERIOD), NaN, NaN)
            @@ [High |-> high, Low |-> low, TR |-> tr]

\* prices and rolling standard deviations of the band specification
OhlcPrices == { Fl(2000), Fl(4000) }
StdValues == { Fl(0), Fl(1000) }

\* fetch_stock_data delivers the next bar with Low <= Close <= High
FetchOhlcBar ==
    /\ done = {}
    /\ Len(bars) < MaxBandBars
    /\ \E high \in OhlcPrices, low \in OhlcPrices, close \in OhlcPrices, std \in StdValues :
          /\ Val(low) <= Val(close)
          /\ Val(close) <= Val(high)
          /\ bars' = Append(bars, ohlc_bar(bars, high, low, close, std))
    /\ UNCHANGED <<df, signals, events, done>>
    /\ UNCHANGED scan_vars

NextBands ==
    \/ FetchOhlcBar
    \/ DetectSqueeze

SpecBands == Init /\ [][NextBands]_vars

----------------------------------------------------------------------------
(* get_squeeze_history on a frame that comes with its squeeze columns      *)
(* ("if 'Squeeze_On' not in df.columns" is false): the columns the         *)
(* extractor reads are then what the caller put into the frame, and the    *)
(* extractor itself provides for an undefined BB_Width on an ON bar.       *)

\* longest frame of the supplied frame specification (SpecFrames)
MaxFrameRows == 4

\* a row of such a frame, with the columns get_squeeze_history reads
frame_row(squeeze_on, bb_width) ==
    [Squeeze_On |-> squeeze_on, BB_Width |-> bb_width, Close |-> Fl(3000),
     Squeeze_Momentum |-> Fl(1000), DMA_200 |-> NaN]

\* ON or OFF, the width undefined, 2.005 %, 5 % or 8 %
FrameRows ==
    { frame_row(squeeze_on, bb_width) :
        squeeze_on \in BOOLEAN,
        bb_width \in { NaN, <<2005, 1000>>, <<5, 1>>, <<8, 1>> } }

\* the caller's frame grows by one row
SupplyFrameRow ==
    /\ "history" \notin done
    /\ bars = <<>>
    /\ Len(df) < MaxFrameRows
    /\ \E r \in FrameRows : df' = Append(df, r)
    /\ done' = {"squeeze"}
    /\ UNCHANGED <<bars, signals, events>>
    /\ UNCHANGED scan_vars

NextFrames ==
    \/ SupplyFrameRow
    \/ GetSqueezeHistory

SpecFrames == Init /\ [][NextFrames]_vars

\* the events that ended on a fire bar
ClosedIds == { k \in EventIds : events[k].end_date # Ongoing }

\* round(width, 2) in hundredths, an undefined width read as 0
WidthOrZero(width) == IF isna(width) THEN 0 ELSE RoundHalfEven(width[1] * 100, width[2])

\* C17: for every closed event, bb_width_before is the rounded BB_Width of
\* the bar just before the fire bar, which is the last ON bar of the
\* episode, and 0 when that width is undefined.
C17_WidthBeforeIsPreviousBar ==
    HistoryDone =>
        \A k \in ClosedIds :
            LET f == events[k].end_date[1]
            IN  /\ f >= 1
                /\ Row(df, f - 1).Squeeze_On
                /\ events[k].bb_width_before = WidthOrZero(Row(df, f - 1).BB_Width)

\* two closed events: one whose fire bar is wider than the bar before it, one
\* whose bar before the fire bar has no width while the fire bar has one
C17_Witness ==
    /\ HistoryDone
    /\ \E k \in ClosedIds :
          LET f == events[k].end_date[1]
          IN  /\ ~isna(Row(df, f).BB_Width) /\ ~isna(Row(df, f - 1).BB_Width)
              /\ WidthOrZero(Row(df, f).BB_Width) > WidthOrZero(Row(df, f - 1).BB_Width)
              /\ events[k].bb_width_before > 0
    /\ \E k \in ClosedIds :
          LET f == events[k].end_date[1]
          IN  /\ ~isna(Row(df, f).BB_Width) /\ isna(Row(df, f - 1).BB_Width)
              /\ events[k].bb_width_before = 0

\* the bars of the episode of event k: from its start up to, not including,
\* its fire bar, or up to the end of the frame for an open episode
EpisodeBars(k) ==
    LET s == events[k].start_date
        e == IF events[k].end_date = Ongoing THEN Len(df) ELSE events[k].end_date[1]
    IN  s..(e - 1)

\* the defined widths on the bars of the episode of event k
EpisodeWidths(k) ==
    { Row(df, i).BB_Width : i \in { j \in EpisodeBars(k) : ~isna(Row(df, j).BB_Width) } }

\* the smallest of a non-empty set of widths
MinWidth(widths) == CHOOSE w \in widths : \A v \in widths : ~FracLt(v, w)

\* C18: for every event, closed or PENDING, the bars from its start up to
\* its fire bar (or the end of the frame) are the ON bars of one episode and
\* min_bb_width is the rounded minimum of the BB_Width values on exactly
\* these bars: not of an earlier episode, the fire bar or any OFF bar.
C18_MinWidthOverEpisode ==
    HistoryDone =>
        \A k \in EventIds :
            /\ \A i \in EpisodeBars(k) : Row(df, i).Squeeze_On
            /\ EpisodeWidths(k) # {} =>
                  events[k].min_bb_width = WidthOrZero(MinWidth(EpisodeWidths(k)))

\* an episode that starts at 8 %, narrows to 5 % and fires on a bar of
\* 2.005 %, followed by an open episode of 8 %
C18_Witness ==
    /\ HistoryDone
    /\ Len(events) = 2
    /\ events[1].end_date = <<2>>
    /\ events[1].duration = 2
    /\ Row(df, 0).BB_Width = <<8, 1>>
    /\ Row(df, 2).BB_Width = <<2005, 1000>>
    /\ events[1].min_bb_width = 500
    /\ events[2].direction = "PENDING"
    /\ events[2].min_bb_width = 800

\* round(999, 2) in hundredths: the placeholder as an event would report it
ReportedPlaceholder == WidthOrZero(<<WIDTH_PLACEHOLDER, 1>>)

\* C19: a closed event whose episode has no ON bar with a defined BB_Width
\* reports the BB_Width of its fire bar as min_bb_width, and no event
\* reports the placeholder.
C19_MinWidthDefaultsToFireBar ==
    HistoryDone =>
        /\ \A k \in ClosedIds :
              EpisodeWidths(k) = {} =>
                  events[k].min_bb_width =
                      WidthOrZero(Row(df, events[k].end_date[1]).BB_Width)
        /\ \A k \in EventIds : events[k].min_bb_width # ReportedPlaceholder

----------------------------------------------------------------------------
(* The validator and the history extractor on the same frame *)

\* longest series of the agreement specification (SpecAgreement)
MaxAgreementBars == 2

\* Rows of the agreement specification: the 200 DMA is defined and below
\* the close; the Keltner channel is 1500..4500 and the Bollinger band
\* 2000..4000 (ON) or 1500..4500 (OFF); the close is inside the Bollinger
\* band or above it; the momentum is falling or rising.
AgreementBars ==
    { Bar(close, Fl(3000), std, Fl(3000), Fl(1000), mom, Fl(2000)) :
        close \in { Fl(3000), Fl(5000) },
        std \in { Fl(500), Fl(750) },
        mom \in { Fl(-1000), Fl(1000) } }

NextAgreement ==
    \/ FetchBar(AgreementBars, MaxAgreementBars)
    \/ DetectSqueeze
    \/ DetectEntrySignals
    \/ GetSqueezeHistory

SpecAgreement == Init /\ [][NextAgreement]_vars

\* C20: every fire bar ends an event, and the event's direction is BULLISH
\* exactly when detect_entry_signals marks the bar as a valid bullish
\* breakout, BEARISH exactly when it marks a valid bearish breakout, and
\* INVALID otherwise.
C20_DirectionAgreesWithValidator ==
    (SignalsDone /\ HistoryDone) =>
        /\ \A i \in Positions :
              Row(df, i).Squeeze_Fire => \E k \in ClosedIds : events[k].end_date = <<i>>
        /\ \A k \in ClosedIds :
              LET g == Row(signals, events[k].end_date[1])
              IN  /\ events[k].direction = "BULLISH" <=> g.long_signal
                  /\ events[k].direction = "BEARISH" <=> g.short_signal
                  /\ events[k].direction = "INVALID" <=>
                         (~g.long_signal /\ ~g.short_signal)

----------------------------------------------------------------------------
(* Further properties of get_squeeze_history *)

\* C21: every closed event with direction BULLISH has momentum > 0 at its
\* fire bar and every closed event with direction BEARISH has momentum < 0
\* there, with or without a defined DMA_200; a fire bar whose momentum is 0
\* or undefined gets neither side.
C21_SideFollowsMomentumSign ==
    HistoryDone =>
        \A k \in ClosedIds :
            LET r == Row(df, events[k].end_date[1])
            IN  /\ events[k].direction = "BULLISH" => Gt(r.Squeeze_Momentum, Fl(0))
                /\ events[k].direction = "BEARISH" => Lt(r.Squeeze_Momentum, Fl(0))

----------------------------------------------------------------------------
(* Properties of calculate_momentum *)

\* longest series of the momentum specification (SpecMomentum)
MaxMomentumBars == 3

\* Rows of the momentum specification: the regression value is undefined
\* (warm-up), -2, -1, 0, 1 or 2
MomentumBars ==
    { Bar(Fl(3000), Fl(3000), Fl(500), Fl(3000), Fl(1000), mom, NaN) :
        mom \in { NaN, Fl(-2000), Fl(-1000), Fl(0), Fl(1000), Fl(2000) } }

NextMomentum ==
    \/ FetchBar(MomentumBars, MaxMomentumBars)
    \/ DetectSqueeze

SpecMomentum == Init /\ [][NextMomentum]_vars

\* Squeeze_Momentum of the bar before position i, undefined before the first
MomentumBefore(i) == IF i = 0 THEN NaN ELSE Row(df, i - 1).Squeeze_Momentum

\* the label the claim gives position i
ClaimedLabel(i) ==
    LET m == Row(df, i).Squeeze_Momentum
        p == MomentumBefore(i)
    IN  IF isna(m) \/ isna(p) \/ Val(m) = 0 \/ Val(m) = Val(p) THEN "NEUTRAL"
        ELSE IF Val(m) > 0 /\ Val(m) > Val(p) THEN "BULLISH_UP"
        ELSE IF Val(m) > 0 THEN "BULLISH_DOWN"
        ELSE IF Val(m) < Val(p) THEN "BEARISH_DOWN"
        ELSE "BEARISH_UP"

\* C22: Momentum_Direction is BULLISH_UP for a momentum > 0 above the
\* previous bar's, BULLISH_DOWN for one > 0 below it, BEARISH_DOWN for one
\* < 0 below it, BEARISH_UP for one < 0 above it, and NEUTRAL when the
\* momentum is 0 or undefined, the previous one is undefined, or both are
\* equal.
C22_MomentumLabels ==
    Squeezed =>
        \A i \in Positions : Row(df, i).Momentum_Direction = ClaimedLabel(i)

----------------------------------------------------------------------------
(* Concurrency properties of scan_all_stocks *)

\* the tasks the collecting loop has taken from as_completed
CollectedSymbols == { s \in 1..total : futures[s].state = "collected" }

\* the counter equals the number of collected tasks, failed ones included,
\* the callback has been called with 1, 2, ..., completed, and the returned
\* call has reported every submitted symbol
ProgressCounts ==
    /\ completed = Cardinality(CollectedSymbols)
    /\ progress = [k \in 1..completed |-> <<k, total>>]
    /\ ScanReturned => completed = total

\* a step that changes the counter or calls the callback is one iteration of
\* the collecting loop: it takes exactly one finished task, adds one to the
\* counter and makes one call; a step of a worker changes neither
ProgressStep ==
    (completed' # completed \/ progress' # progress) =>
        /\ completed' = completed + 1
        /\ Len(progress') = Len(progress) + 1
        /\ \E s \in 1..total :
              /\ futures[s].state = "finished"
              /\ futures'[s].state = "collected"
              /\ \A t \in (1..total) \ {s} : futures'[t] = futures[t]

\* a step of a worker (a task starts or finishes) leaves the counter, the
\* callback and the result list alone
WorkerStep ==
    (\E s \in 1..total :
        /\ futures'[s] # futures[s]
        /\ futures'[s].state \in {"running", "finished"}) =>
        UNCHANGED <<completed, progress, results>>

\* C23: the progress counter is written by the collecting loop only;
\* progress_callback is called once per submitted symbol, failed ones
\* included, with completed = 1, 2, ..., total in this order under every
\* interleaving of the worker tasks; no increment is lost.
C23_ProgressCountsEveryTask ==
    /\ []ProgressCounts
    /\ [][ProgressStep /\ WorkerStep]_vars

\* a returned batch of three symbols, two of them failed, all three reported
C23_Witness ==
    /\ ScanReturned
    /\ total = 3
    /\ Cardinality(FailedSymbols) = 2
    /\ progress = << <<1, 3>>, <<2, 3>>, <<3, 3>> >>

\* largest batch of the batch scan specification with scheduling
\* (SpecScanFair)
MaxFairSymbols == 2

\* scan_all_stocks is called with a batch of at most MaxFairSymbols symbols
ScanFairBatch == ScanAllStocks /\ Len(futures') <= MaxFairSymbols

NextScanFair ==
    \/ ScanFairBatch
    \/ StartTask
    \/ FinishTask
    \/ Collect
    \/ ReturnTable

\* The batch scan with its scheduling: a free worker thread takes the next
\* queued task, a running scan_single_stock comes to an end (the fetch
\* returns or raises), as_completed yields every finished future, and the
\* caller's thread goes on to the return statement.
SpecScanFair ==
    /\ Init
    /\ [][NextScanFair]_vars
    /\ WF_vars(StartTask)
    /\ WF_vars(FinishTask)
    /\ WF_vars(Collect)
    /\ WF_vars(ReturnTable)

\* the rows the tasks have produced, and the rows of the returned table
ProducedRows ==
    { futures[s].outcome.value[1] :
        s \in { t \in 1..total : futures[t].state \in {"finished", "collected"}
                                 /\ ~futures[t].outcome.raised
                                 /\ futures[t].outcome.value # None } }
TableRows == { table[k] : k \in 1..Len(table) }

\* the call has returned only after every submitted task was completed and
\* collected, and its table holds each produced row once and nothing else
ReturnedAllRows ==
    ScanReturned =>
        /\ CollectedSymbols = 1..total
        /\ TableRows = ProducedRows
        /\ Len(table) = Cardinality(ProducedRows)
        /\ \A s \in 1..total :
              Cardinality(RowsOf(s)) = IF futures[s].outcome.value # None THEN 1 ELSE 0

\* a step in which a task starts or finishes leaves the result list alone
WorkersLeaveResults ==
    (\E s \in 1..total :
        /\ futures'[s] # futures[s]
        /\ futures'[s].state \in {"running", "finished"}) => results' = results

\* C24: under every interleaving and completion order of the worker tasks
\* scan_all_stocks returns, after all submitted tasks have completed, with
\* exactly one row for each symbol whose scan produced a result and none
\* for the others; the worker tasks never write to the result list.
C24_ReturnsEveryProducedRow ==
    /\ []ReturnedAllRows
    /\ [][WorkersLeaveResults]_vars
    /\ (phase = "collecting") ~> ScanReturned

\* a returned batch of two symbols with two rows, collected in the
\* opposite of the submission order
C24_Witness ==
    /\ ScanReturned
    /\ total = 2
    /\ Len(results) = 2
    /\ results[1].symbol > results[2].symbol
    /\ Len(table) = 2

----------------------------------------------------------------------------
(* get_squeeze_history on a supplied frame whose Squeeze_Fire column need  *)
(* not fit its Squeeze_On column.  The extractor has no raise statement    *)
(* and reads Squeeze_On only, so the call always returns its event list.   *)

\* longest frame of the flagged frame specification (SpecFlaggedFrames)
MaxFlaggedRows == 3

\* ON or OFF, the fire flag set or not, the width 5 %
FlaggedRows ==
    { frame_row(squeeze_on, <<5, 1>>) @@ [Squeeze_Fire |-> squeeze_fire] :
        squeeze_on \in BOOLEAN, squeeze_fire \in BOOLEAN }

\* the caller's frame grows by one row
SupplyFlaggedRow ==
    /\ "history" \notin done
    /\ bars = <<>>
    /\ Len(df) < MaxFlaggedRows
    /\ \E r \in FlaggedRows : df' = Append(df, r)
    /\ done' = {"squeeze"}
    /\ UNCHANGED <<bars, signals, events>>
    /\ UNCHANGED scan_vars

NextFlaggedFrames ==
    \/ SupplyFlaggedRow
    \/ GetSqueezeHistory

SpecFlaggedFrames == Init /\ [][NextFlaggedFrames]_vars

\* some bar carries a Squeeze_Fire flag that is not "previous bar ON and
\* this bar OFF", for instance a fire flag after a bar that is not ON
FireFlagsViolated ==
    \E i \in Positions :
        Row(df, i).Squeeze_Fire #
            (i > 0 /\ Row(df, i - 1).Squeeze_On /\ ~Row(df, i).Squeeze_On)

\* C25: given a frame that violates the invariants of the squeeze columns
\* (a Squeeze_Fire flag on a bar whose predecessor is not ON),
\* get_squeeze_history fails with a diagnostic and returns no event list.
C25_FailsFastOnViolatedInput ==
    (Squeezed /\ FireFlagsViolated) => "history" \notin done

----------------------------------------------------------------------------
(* BB_Width when the middle band is zero or undefined.  The quotient of    *)
(* line 39 is taken without a guard: 0/0 is NaN, and a positive spread     *)
(* over a zero middle band is the fraction <<n, 0>>, positive infinity.    *)

\* longest series of the width specification (SpecWidth)
MaxWidthBars == 2

\* Rows of the width specification: the rolling mean is undefined (warm-up),
\* zero or 3000; the rolling deviation is undefined, zero or 500.
WidthBars ==
    { Bar(Fl(3000), sma, std, Fl(3000), Fl(1000), NaN, NaN) :
        sma \in { NaN, Fl(0), Fl(3000) },
        std \in { NaN, Fl(0), Fl(500) } }

NextWidth ==
    \/ FetchBar(WidthBars, MaxWidthBars)
    \/ DetectSqueeze

SpecWidth == Init /\ [][NextWidth]_vars

\* the middle band of bar i is zero or undefined
MiddleZeroOrUndefined(i) ==
    \/ isna(Row(df, i).BB_Middle)
    \/ Val(Row(df, i).BB_Middle) = 0

\* C26: on every bar whose Bollinger middle band is zero or undefined, the
\* width percentage is null, never an infinity from a division by zero.
C26_WidthNullOnZeroMiddle ==
    Squeezed =>
        \A i \in Positions :
            MiddleZeroOrUndefined(i) => isna(Row(df, i).BB_Width)

----------------------------------------------------------------------------
(* Consistency of the signal columns of detect_entry_signals *)

\* the flags of one output row fit together
SignalFlagsConsistent(i) ==
    LET s == Row(signals, i)
    IN  /\ ~(s.long_signal /\ s.short_signal)
        /\ s.is_valid_breakout <=> (s.long_signal \/ s.short_signal)
        /\ s.is_valid_breakout => s.breakout_detected
        /\ s.breakout_detected => Row(df, i).Squeeze_Fire
        /\ (s.signal_type = "Invalid Breakout")
               <=> (s.breakout_detected /\ ~s.is_valid_breakout)

\* C27: in every output row of detect_entry_signals, long_signal and
\* short_signal are never both true, is_valid_breakout is true exactly when
\* one of them is, is_valid_breakout implies breakout_detected,
\* breakout_detected implies Squeeze_Fire, and signal_type is
\* 'Invalid Breakout' exactly when breakout_detected and not
\* is_valid_breakout.
C27_SignalColumnsConsistent ==
    SignalsDone => \A i \in Positions : SignalFlagsConsistent(i)

\* a frame whose fire bar is a valid short signal next to a bar that is
\* aligned with a breakout but did not fire
C27_Witness ==
    /\ SignalsDone
    /\ Len(df) = 2
    /\ BullishAligned(Row(df, 0)) /\ ~Row(signals, 0).breakout_detected
    /\ Row(df, 1).Squeeze_Fire
    /\ Row(signals, 1).short_signal
    /\ Row(signals, 1).is_valid_breakout
    /\ Row(signals, 1).signal_type = "Bearish Breakout (Valid)"

----------------------------------------------------------------------------
(* Event durations against the Squeeze_Duration column *)

\* the bar whose Squeeze_Duration closes the count of event k: the bar
\* before the fire bar, or the last bar of the series for an open episode
LastEpisodeBar(k) ==
    IF events[k].end_date = Ongoing THEN Len(df) - 1
    ELSE events[k].end_date[1] - 1

\* the ON bars from the start of event k to the end of its episode
EpisodeOnBars(k) ==
    { j \in Positions :
        /\ events[k].start_date <= j
        /\ j <= LastEpisodeBar(k)
        /\ Row(df, j).Squeeze_On }

\* C28: for every event of get_squeeze_history on a detect_squeeze output,
\* duration is the number of ON bars of the episode: for a closed event the
\* Squeeze_Duration of the bar just before the fire bar, for a PENDING event
\* the Squeeze_Duration of the last bar; it is at least 1.
C28_DurationCountsOnBars ==
    HistoryDone =>
        \A k \in EventIds :
            /\ events[k].duration = Cardinality(EpisodeOnBars(k))
            /\ events[k].duration = Row(df, LastEpisodeBar(k)).Squeeze_Duration
            /\ events[k].duration >= 1

\* a closed episode of two ON bars followed by an open episode of three
C28_Witness ==
    /\ HistoryDone
    /\ Len(events) = 2
    /\ events[1].end_date # Ongoing /\ events[1].duration = 2
    /\ events[2].direction = "PENDING" /\ events[2].duration = 3

----------------------------------------------------------------------------
(* Closed events against the Squeeze_Fire column *)

\* the bars flagged by detect_squeeze as fire bars
FireBars == { i \in Positions : Row(df, i).Squeeze_Fire }

\* the closed events up to and including event k
ClosedUpTo(k) == { m \in ClosedIds : m <= k }

\* the fire bars up to and including position i
FireBarsUpTo(i) == { j \in FireBars : j <= i }

\* C29: on a detect_squeeze output, get_squeeze_history returns as many
\* closed (non-PENDING) events as there are bars with Squeeze_Fire, and the
\* i-th closed event ends on the i-th fire bar.
C29_ClosedEventsAreFireBars ==
    HistoryDone =>
        /\ Cardinality(ClosedIds) = Cardinality(FireBars)
        /\ \A k \in ClosedIds :
            /\ events[k].direction # "PENDING"
            /\ events[k].end_date[1] \in FireBars
            /\ Cardinality(FireBarsUpTo(events[k].end_date[1]))
                   = Cardinality(ClosedUpTo(k))

\* two fire bars and two closed events, with OFF bars that are not fire bars
\* in between
C29_Witness ==
    /\ HistoryDone
    /\ Cardinality(FireBars) = 2
    /\ Cardinality(ClosedIds) = 2
    /\ \E i \in Positions : ~Row(df, i).Squeeze_On /\ ~Row(df, i).Squeeze_Fire
    /\ events[1].end_date[1] < events[2].start_date - 1

----------------------------------------------------------------------------
(* Squeeze flags of the scan rows *)

\* the rows collected so far and the rows of the returned table
ScanRows ==
    { results[k] : k \in 1..Len(results) } \cup { table[k] : k \in 1..Len(table) }

\* the squeeze flags and the duration of one row fit together
SqueezeFlagsConsistent(r) ==
    /\ r.squeeze_on <=> ~r.squeeze_off
    /\ r.squeeze_fire => (~r.squeeze_on /\ r.squeeze_duration = 0)
    /\ r.squeeze_on => (r.squeeze_duration >= 1 /\ ~r.squeeze_fire)

\* C30: in every row scan_single_stock produces, squeeze_on and squeeze_off
\* are complementary, squeeze_fire implies squeeze_on false and
\* squeeze_duration 0, and squeeze_on implies squeeze_duration at least 1
\* and squeeze_fire false; among the just-fired rows of the table the
\* duration component of the sort key is always 0.
C30_ScanRowFlagsConsistent ==
    /\ \A r \in ScanRows : SqueezeFlagsConsistent(r)
    /\ \A k \in 1..Len(table) :
           table[k].squeeze_fire => SortKey(table[k])[3] = 0

\* a returned table with a row in squeeze for three bars, a just-fired row
\* and a row that is off without having fired
C30_Witness ==
    /\ ScanReturned
    /\ Len(table) = 3
    /\ table[1].squeeze_on /\ table[1].squeeze_duration = 3
    /\ table[2].squeeze_fire /\ table[2].squeeze_off
    /\ ~table[3].squeeze_on /\ ~table[3].squeeze_fire

====
